---- MODULE Spec2Model ----
(***************************************************************************)
(* Model of the embedded document/vector store of DocuChat-API:            *)
(*   app/db/engine.py      connection set-up and schema set-up             *)
(*   app/db/operations.py  document, chunk, embedding and search operations*)
(*   ducuchat_api/config.py        resolution of a session configuration   *)
(*   app/session.py, ducuchat_api/api/session.py   sessions                *)
(*                                                                         *)
(* The store is one SQLite file.  Every operation opens a connection of    *)
(* its own (get_db_connection), runs its statements and closes it.         *)
(*                                                                         *)
(* Two things the operations do not decide themselves are inputs of the    *)
(* model, fixed for a run in the variable env:                             *)
(*   - whether the Python build has Connection.enable_load_extension; if   *)
(*     it has, the connection runs with isolation_level=None (every        *)
(*     statement commits on its own); if not, the code reconnects with the *)
(*     default isolation level (DML opens a transaction implicitly);       *)
(*   - whether the sqlite-vec library loads when a connection asks for it, *)
(*     and whether the creation of the vec0 table succeeds.                *)
(* env also holds whether the storage location is writable, which the      *)
(* file system can change while the program runs (Chmod).                  *)
(* Similarities are integers, cosine * 100.  Python None and SQL NULL are  *)
(* the value None.  The repository operations run against a store whose    *)
(* baseline schema exists (SchemaExists): set-up runs when a session is    *)
(* created, before anything else is done with the store.                   *)
(***************************************************************************)
EXTENDS Integers, Sequences, FiniteSets, TLC

\* ---------------------------------------------------------------- bounds
MaxBatch == 2
MaxLimit == 2
MaxRowid == 3
MaxClock == 2
MaxNow == 4

\* ------------------------------------------------------ program constants
DEFAULT_EMBEDDING_DIMENSIONS == 384
\* SessionManager(session_timeout_minutes=60), in the time unit of the model:
\* the minute the cleanup task sleeps between two passes, scaled down
session_timeout_minutes == 2
similarity_threshold == 50

\* ------------------------------------------------------------ input sets
None == "None"
DocIds == {"d1", "d2"}
ChunkIds == {"c1", "c2"}
Hashes == {"h1", "h2"}
\* the width of the vector table the input vectors fit, and one they do not
TableWidth == Len(<<5, 0>>)
WideWidth == TableWidth + 1
SchemaDims == { TableWidth, WideWidth }

DocInputs ==
  { [id |-> "d1", name |-> "a.pdf", type |-> "pdf", size |-> 10, file_hash |-> "h1"],
    [id |-> "d1", name |-> "b.txt", type |-> "txt", size |-> 20, file_hash |-> None],
    [id |-> "d2", name |-> "c.pdf", type |-> "pdf", size |-> 30, file_hash |-> "h1"] }

ChunkInputs == [id : ChunkIds, document_id : DocIds, content : {"text"}]

Batches == UNION { [1..n -> ChunkInputs] : n \in 0..MaxBatch }

\* vectors of norm 5, so that cosine * 100 is an integer; a short and an empty one
VecInputs == { <<5, 0>>, <<3, 4>>, <<5>>, <<>> }
QueryInputs == { <<5, 0>> }
LimitInputs == (-1)..MaxLimit
\* an absent optional number (override_threshold=None, embedding_dimensions=None)
Absent == -1
ThresholdInputs == { Absent, 0, 80 }
DimsInputs == { Absent, 0, TableWidth }
EmbeddingInputs == [chunk_id : ChunkIds, embedding : VecInputs]

\* a key of a request body: given or not, and its value if given
Given(v) == [given |-> TRUE, value |-> v]
NotGiven(default) == [given |-> FALSE, value |-> default]

\* the keys of a session configuration; null is Absent for a number, None for a string
DimensionsInputs ==
  { NotGiven(Absent) } \cup { Given(v) : v \in {Absent, 0, 100, 511, 512, 767, 768, 1023, 1024, 1536} }
ChunkSizeInputs == { NotGiven(Absent) } \cup { Given(v) : v \in {Absent, 0, 7, 768, 1000} }
ChunkOverlapInputs == { NotGiven(Absent) } \cup { Given(v) : v \in {Absent, 0, 50} }
RagKeyInputs == { NotGiven(None) } \cup { Given(v) : v \in {None, "", "sk-rag"} }
OpenAiKeyInputs == { NotGiven(None), Given("sk-chat") }

ConfigInputs ==
  [embedding_dimensions : DimensionsInputs, openai_api_key : OpenAiKeyInputs,
   rag_api_key : RagKeyInputs, chunk_size : ChunkSizeInputs, chunk_overlap : ChunkOverlapInputs]

SessionIds == {"s1", "s2"}

VARIABLES
  env,        \* the build and the extension's availability (fixed)
  db,         \* the committed content of the SQLite file
  initRuns,   \* history: how often Database(dims) has set the schema up, to 2
  last,       \* the last completed call: [op, arg, status, result]
  before,     \* db when the last completed call began
  wr,         \* the writer's call in flight (statement-level runs only)
  seen,       \* what a reader saw while the writer's call was in flight
  sessions,   \* SessionManager.sessions: session id -> configuration
  created,    \* history: session id -> the configuration it was created with
  now,        \* datetime.now(), in minutes
  cleanup_task  \* SessionManager.cleanup_task and the cleanup tasks alive

vars == <<env, db, initRuns, last, before, wr, seen, sessions, created, now, cleanup_task>>

\* ------------------------------------------------------------ functions
EmptyFn == [x \in {} |-> None]

Put(f, k, v) == [x \in DOMAIN f \cup {k} |-> IF x = k THEN v ELSE f[x]]

Drop(f, S) == [x \in DOMAIN f \ S |-> f[x]]

SetMax(S) == CHOOSE m \in S : \A x \in S : x <= m

Min(a, b) == IF a <= b THEN a ELSE b

\* ---------------------------------------------------------------- store
Baseline == {"documents", "chunks"}
VecTable == "vss_embeddings"

\* created_at is the column of that name of documents, clock the second
\* CURRENT_TIMESTAMP gives on the store's connections
EmptyDb ==
  [tables |-> {}, vecDims |-> 0, documents |-> EmptyFn, chunks |-> EmptyFn,
   embeddings |-> EmptyFn, created_at |-> EmptyFn, clock |-> 0]

SchemaExists == Baseline \subseteq db.tables

\* canEnableExt: sqlite3.Connection has enable_load_extension / load_extension
\* extLoadOK:    the library at sqlite_vec.loadable_path() loads when asked to
\* vecCreateOK:  CREATE VIRTUAL TABLE ... USING vec0 succeeds once it is loaded
\* writable:     os.access(db_path or its directory, os.W_OK)
Builds ==
  [canEnableExt : BOOLEAN, extLoadOK : BOOLEAN, vecCreateOK : BOOLEAN, writable : BOOLEAN]

\* engine.py get_db_connection: with enable_load_extension the connection is
\* isolation_level=None and nothing loads the extension; without it the code
\* reconnects with the default isolation level and tries load_extension() in SQL.
\* error is the exception get_db_connection re-raises instead of returning.
\* dropped counts the connections it opened and let go of without close(): in
\* the AttributeError branch the name connection is bound to a second
\* sqlite3.connect() while the first connection is still open.
get_db_connection(e) ==
  IF ~e.writable
    THEN [autocommit |-> FALSE, vec |-> FALSE, error |-> "PermissionError", dropped |-> 0]
  ELSE IF e.canEnableExt
    THEN [autocommit |-> TRUE, vec |-> FALSE, error |-> None, dropped |-> 0]
    ELSE [autocommit |-> FALSE, vec |-> e.extLoadOK, error |-> None, dropped |-> 1]

\* the connections a call opened and did not close when it returns or raises:
\* every operation and test_db_connection close the connection they hold on
\* each path that has one; Database.__init__ keeps its connection in self
Unclosed(conn, op) ==
  conn.dropped + (IF op = "initialize_database" /\ conn.error = None THEN 1 ELSE 0)

\* operations.py, every operation: "connection = get_db_connection(db_path)" is
\* inside the try; when it raises, the handler's "if connection:" reads a
\* local that was never assigned
ExceptHandler(conn) == "UnboundLocalError"

Ok(d, res) == [db |-> d, status |-> "ok", result |-> res]
Fail(d, kind) == [db |-> d, status |-> kind, result |-> None]

\* ---------------------------------------------------------- schema set-up
\* faulty variant: the tables are dropped and created again
initialize_database_without_vec_Recreate(d) ==
  [d EXCEPT !.tables = @ \cup Baseline, !.documents = EmptyFn, !.chunks = EmptyFn,
            !.created_at = EmptyFn]

\* CREATE TABLE IF NOT EXISTS documents / chunks
initialize_database_without_vec(d) ==
  [d EXCEPT !.tables = @ \cup Baseline]

\* sqlite_vec.load(connection) calls connection.load_extension(path)
DirectLoad(e) == e.canEnableExt /\ e.extLoadOK

\* connection.execute("SELECT load_extension(?)", (extension_path,))
AlternateLoad(e) == e.extLoadOK

LoadExtension(e) == DirectLoad(e) \/ AlternateLoad(e)

\* CREATE VIRTUAL TABLE IF NOT EXISTS vss_embeddings USING vec0(embedding float[dims])
CreateVecTable(d, dims) ==
  IF VecTable \in d.tables THEN d
  ELSE [d EXCEPT !.tables = @ \cup {VecTable}, !.vecDims = dims]

\* faulty variant: a failure to load the extension or to create the table is re-raised
initialize_database_Strict(e, d, dims) ==
  LET d1 == initialize_database_without_vec(d) IN
  IF ~LoadExtension(e) THEN Fail(d1, "OperationalError")
  ELSE IF ~e.vecCreateOK THEN Fail(d1, "OperationalError")
  ELSE Ok(CreateVecTable(d1, dims), None)

\* the baseline tables, then the extension (return on failure), then the vec0
\* table (failure printed and dropped)
initialize_database(e, d, dims) ==
  LET d1 == initialize_database_without_vec(d) IN
  IF ~LoadExtension(e) THEN Ok(d1, None)
  ELSE IF ~e.vecCreateOK THEN Ok(d1, None)
  ELSE Ok(CreateVecTable(d1, dims), None)

\* SELECT * FROM vss_embeddings LIMIT 1 on the probing connection
VecQueryable(conn, d) == conn.vec /\ VecTable \in d.tables

\* the outer "except Exception" prints the error and returns dimensions
test_db_connection(e, d, dimsIn) ==
  LET dimensions == IF dimsIn = Absent \/ dimsIn = 0
                      THEN DEFAULT_EMBEDDING_DIMENSIONS ELSE dimsIn
      conn == get_db_connection(e)
      r == IF conn.error # None THEN Ok(d, None)
           ELSE IF "documents" \notin d.tables THEN initialize_database(e, d, dimensions)
           ELSE IF VecQueryable(conn, d) THEN Ok(d, None)
           ELSE initialize_database(e, d, dimensions)
  IN  [db |-> r.db, status |-> "ok", result |-> dimensions]

\* ------------------------------------------------------------- documents
DocRow(doc) ==
  [name |-> doc.name, type |-> doc.type, size |-> doc.size, file_hash |-> doc.file_hash]

\* faulty variant: INSERT OR REPLACE, the row of an existing id is overwritten
InsertDocumentStmt_Replace(d, doc) ==
  IF "documents" \notin d.tables THEN Fail(d, "OperationalError")
  ELSE Ok([d EXCEPT !.documents = Put(@, doc.id, DocRow(doc)),
                    !.created_at = Put(@, doc.id, d.clock)], None)

\* INSERT INTO documents (id, name, type, size, file_hash) VALUES (...)
InsertDocumentStmt(d, doc) ==
  IF "documents" \notin d.tables THEN Fail(d, "OperationalError")
  ELSE IF doc.id \in DOMAIN d.documents THEN Fail(d, "IntegrityError")
  ELSE Ok([d EXCEPT !.documents = Put(@, doc.id, DocRow(doc)),
                    !.created_at = Put(@, doc.id, d.clock)], None)

insert_document(conn, d, doc) ==
  IF conn.error # None THEN Fail(d, ExceptHandler(conn)) ELSE
  LET r == InsertDocumentStmt(d, doc) IN
  IF r.status = "ok" THEN Ok(r.db, [id |-> doc.id]) ELSE Fail(d, r.status)

\* ---------------------------------------------------------------- chunks
\* the rowid SQLite gives a new row of a table without INTEGER PRIMARY KEY
NextRowid(chunks) ==
  IF DOMAIN chunks = {} THEN 1
  ELSE 1 + SetMax({chunks[c].rowid : c \in DOMAIN chunks})

\* faulty variant: PRAGMA foreign_keys is off, the reference is not checked
InsertChunkStmt_NoForeignKey(d, chunk) ==
  IF "chunks" \notin d.tables THEN Fail(d, "OperationalError")
  ELSE IF chunk.id \in DOMAIN d.chunks THEN Fail(d, "IntegrityError")
  ELSE Ok([d EXCEPT !.chunks =
             Put(@, chunk.id, [document_id |-> chunk.document_id,
                               content |-> chunk.content,
                               rowid |-> NextRowid(d.chunks)])], None)

\* INSERT INTO chunks (id, document_id, content) VALUES (...), foreign keys on
InsertChunkStmt(d, chunk) ==
  IF "chunks" \notin d.tables THEN Fail(d, "OperationalError")
  ELSE IF chunk.id \in DOMAIN d.chunks THEN Fail(d, "IntegrityError")
  ELSE IF chunk.document_id \notin DOMAIN d.documents THEN Fail(d, "IntegrityError")
  ELSE Ok([d EXCEPT !.chunks =
             Put(@, chunk.id, [document_id |-> chunk.document_id,
                               content |-> chunk.content,
                               rowid |-> NextRowid(d.chunks)])], None)

\* the for loop of insert_chunks from member i on: stops at the first failure
RECURSIVE RunBatch(_, _, _)
RunBatch(d, chunks, i) ==
  IF i > Len(chunks) THEN Ok(d, None)
  ELSE LET r == InsertChunkStmt(d, chunks[i]) IN
       IF r.status = "ok" THEN RunBatch(r.db, chunks, i + 1) ELSE r

\* "with connection:" commits or rolls back the open transaction; a connection
\* with isolation_level=None never has one, every INSERT already committed
insert_chunks(conn, d, chunks) ==
  IF conn.error # None THEN Fail(d, ExceptHandler(conn)) ELSE
  LET r == RunBatch(d, chunks, 1) IN
  IF r.status = "ok" THEN Ok(r.db, [success |-> TRUE, count |-> Len(chunks)])
  ELSE Fail(IF conn.autocommit THEN r.db ELSE d, r.status)

\* ------------------------------------------------------------ embeddings
\* np.array(v, dtype=np.float32).tobytes(): 4 bytes a float, no length prefix
tobytes(v) == [nbytes |-> 4 * Len(v), floats |-> v]

\* np.frombuffer(blob, dtype=np.float32).tolist()
frombuffer(blob) == blob.floats

\* a statement that names vss_embeddings runs only on a connection that has the
\* vec0 module loaded, and only if the table was created
VecUsable(conn, d) == conn.vec /\ VecTable \in d.tables

\* INSERT INTO vss_embeddings (rowid, embedding) VALUES (?, ?); the vec0 table
\* is declared float[vecDims] and takes blobs of that width only
InsertEmbeddingStmt(conn, d, rowid, blob) ==
  IF ~VecUsable(conn, d) THEN Fail(d, "OperationalError")
  ELSE IF blob.nbytes # 4 * d.vecDims THEN Fail(d, "OperationalError")
  ELSE IF rowid \in DOMAIN d.embeddings THEN Fail(d, "IntegrityError")
  ELSE Ok([d EXCEPT !.embeddings = Put(@, rowid, blob)], None)

\* faulty variant: the vector is checked against the table before the chunk is looked up
insert_embedding_VectorFirst(conn, d, embedding) ==
  IF "chunks" \notin d.tables THEN Fail(d, "OperationalError")
  ELSE IF ~VecUsable(conn, d) \/ tobytes(embedding.embedding).nbytes # 4 * d.vecDims
         THEN Fail(d, "OperationalError")
  ELSE IF embedding.chunk_id \notin DOMAIN d.chunks THEN Fail(d, "ValueError")
  ELSE LET chunk_rowid == d.chunks[embedding.chunk_id].rowid
           r == InsertEmbeddingStmt(conn, d, chunk_rowid, tobytes(embedding.embedding))
       IN  IF r.status = "ok" THEN Ok(r.db, [success |-> TRUE]) ELSE Fail(d, r.status)

insert_embedding(conn, d, embedding) ==
  IF conn.error # None THEN Fail(d, ExceptHandler(conn))
  ELSE IF "chunks" \notin d.tables THEN Fail(d, "OperationalError")
  ELSE IF embedding.chunk_id \notin DOMAIN d.chunks THEN Fail(d, "ValueError")
  ELSE LET chunk_rowid == d.chunks[embedding.chunk_id].rowid
           r == InsertEmbeddingStmt(conn, d, chunk_rowid, tobytes(embedding.embedding))
       IN  IF r.status = "ok" THEN Ok(r.db, [success |-> TRUE]) ELSE Fail(d, r.status)

\* ---------------------------------------------------------------- search
Dot(a, b) == IF Len(a) = 0 THEN 0 ELSE a[1] * b[1] + (IF Len(a) > 1 THEN a[2] * b[2] ELSE 0)

ISqrt(n) == CHOOSE r \in 0..n : r * r <= n /\ (r + 1) * (r + 1) > n

\* cosine similarity * 100
vec_cosine_similarity(a, b) ==
  (100 * Dot(a, b)) \div (ISqrt(Dot(a, a)) * ISqrt(Dot(b, b)))

\* ORDER BY similarity DESC LIMIT ?: a negative LIMIT is no limit in SQLite; rows
\* of equal similarity come in any order, so the cut between them is any cut
Matches(sim, limit) ==
  LET E == DOMAIN sim
      n == IF limit < 0 THEN Cardinality(E) ELSE Min(limit, Cardinality(E))
  IN  { M \in SUBSET E : /\ Cardinality(M) = n
                         /\ \A m \in M : \A o \in E \ M : sim[m] >= sim[o] }

\* FROM matches m JOIN chunks c ON c.rowid = m.rowid JOIN vss_embeddings v
\* ON v.rowid = m.rowid WHERE m.similarity >= ?
JoinRows(d, sim, M, threshold) ==
  { [chunk_id |-> c, content |-> d.chunks[c].content,
     document_id |-> d.chunks[c].document_id,
     similarity |-> sim[d.chunks[c].rowid],
     embedding |-> frombuffer(d.embeddings[d.chunks[c].rowid])] :
    c \in { x \in DOMAIN d.chunks : /\ d.chunks[x].rowid \in M
                                    /\ sim[d.chunks[x].rowid] >= threshold } }

\* faulty variant: the rows are returned in cursor order, whatever it is
SortedLists_CursorOrder(R) ==
  { s \in [1..Cardinality(R) -> R] : \A i, j \in DOMAIN s : i # j => s[i] # s[j] }

\* results.sort(key=similarity, reverse=True) over the rows in cursor order
SortedLists(R) ==
  { s \in [1..Cardinality(R) -> R] :
      /\ \A i, j \in DOMAIN s : i # j => s[i] # s[j]
      /\ \A i, j \in DOMAIN s : i < j => s[i].similarity >= s[j].similarity }

\* faulty variant: threshold = override_threshold or similarity_threshold
Threshold_Falsy(override_threshold) ==
  IF override_threshold # Absent /\ override_threshold # 0
    THEN override_threshold ELSE similarity_threshold

\* threshold = override_threshold if override_threshold is not None else similarity_threshold
Threshold(override_threshold) ==
  IF override_threshold # Absent THEN override_threshold ELSE similarity_threshold

\* every list search_similar_embeddings can return, or its one failure
search_similar_embeddings(conn, d, embedding_vector, limit, override_threshold) ==
  IF conn.error # None THEN { Fail(d, ExceptHandler(conn)) }
  ELSE IF ~VecUsable(conn, d) \/ "chunks" \notin d.tables THEN { Fail(d, "OperationalError") }
  ELSE IF tobytes(embedding_vector).nbytes # 4 * d.vecDims THEN { Fail(d, "OperationalError") }
  ELSE LET sim == [r \in DOMAIN d.embeddings |->
                     vec_cosine_similarity(frombuffer(d.embeddings[r]), embedding_vector)]
       IN  { Ok(d, s) : s \in UNION { SortedLists(JoinRows(d, sim, M, Threshold(override_threshold))) :
                                      M \in Matches(sim, limit) } }

\* ------------------------------------------------------- reads and deletion
\* the rows of SELECT id, name, type, size, file_hash, created_at FROM documents
DocumentRows(d) ==
  { [id |-> i, name |-> d.documents[i].name, type |-> d.documents[i].type,
     size |-> d.documents[i].size, file_hash |-> d.documents[i].file_hash,
     created_at |-> d.created_at[i]] : i \in DOMAIN d.documents }

\* ORDER BY created_at DESC: rows of one second come in an order SQL leaves open
OrderByCreatedAtDesc(R) ==
  { s \in [1..Cardinality(R) -> R] :
      /\ \A i, j \in DOMAIN s : i # j => s[i] # s[j]
      /\ \A i, j \in DOMAIN s : i < j => s[i].created_at >= s[j].created_at }

\* every list get_documents can return, or its one failure
get_documents(conn, d) ==
  IF conn.error # None THEN { Fail(d, ExceptHandler(conn)) }
  ELSE IF "documents" \notin d.tables THEN { Fail(d, "OperationalError") }
  ELSE { Ok(d, s) : s \in OrderByCreatedAtDesc(DocumentRows(d)) }

\* SELECT ... FROM documents WHERE file_hash = ? LIMIT 1: any one matching row
find_document_by_hash(conn, d, file_hash) ==
  IF conn.error # None THEN { Fail(d, ExceptHandler(conn)) }
  ELSE IF "documents" \notin d.tables THEN { Fail(d, "OperationalError") }
  ELSE LET hit == { i \in DOMAIN d.documents : d.documents[i].file_hash = file_hash } IN
       IF hit = {} THEN { Ok(d, [none |-> TRUE]) }
       ELSE { Ok(d, [id |-> i, name |-> d.documents[i].name, type |-> d.documents[i].type,
                     size |-> d.documents[i].size, file_hash |-> file_hash]) : i \in hit }

\* SELECT rowid FROM chunks WHERE document_id = ?
ChunkRowids(d, document_id) ==
  { d.chunks[c].rowid : c \in { x \in DOMAIN d.chunks : d.chunks[x].document_id = document_id } }

\* faulty variant: the embeddings of the document's chunks are left in place
DeleteEmbeddingsStmt_Kept(conn, d, rowids) ==
  IF ~VecUsable(conn, d) THEN Fail(d, "OperationalError")
  ELSE Ok(d, None)

\* DELETE FROM vss_embeddings WHERE rowid IN (...)
DeleteEmbeddingsStmt(conn, d, rowids) ==
  IF ~VecUsable(conn, d) THEN Fail(d, "OperationalError")
  ELSE Ok([d EXCEPT !.embeddings = Drop(@, rowids)], None)

\* DELETE FROM documents WHERE id = ?, with ON DELETE CASCADE to chunks
DeleteDocumentStmt(d, document_id) ==
  IF "documents" \notin d.tables THEN Fail(d, "OperationalError")
  ELSE Ok([d EXCEPT !.documents = Drop(@, {document_id}),
                    !.created_at = Drop(@, {document_id}),
                    !.chunks = Drop(@, { c \in DOMAIN d.chunks :
                                           d.chunks[c].document_id = document_id })], None)

\* faulty variant: an id that names no document is an error
delete_document_Strict(conn, d, document_id) ==
  IF "chunks" \notin d.tables THEN Fail(d, "OperationalError")
  ELSE IF document_id \notin DOMAIN d.documents THEN Fail(d, "ValueError")
  ELSE LET rowids == ChunkRowids(d, document_id)
           r1 == IF rowids # {} THEN DeleteEmbeddingsStmt(conn, d, rowids) ELSE Ok(d, None)
           r2 == DeleteDocumentStmt(r1.db, document_id)
       IN  IF r1.status # "ok" THEN Fail(d, r1.status)
           ELSE Ok(r2.db, [success |-> TRUE])

\* the embeddings go in their own statement before the document; on a connection
\* with isolation_level=None that statement is committed when the next one fails
delete_document(conn, d, document_id) ==
  IF conn.error # None THEN Fail(d, ExceptHandler(conn))
  ELSE IF "chunks" \notin d.tables THEN Fail(d, "OperationalError")
  ELSE LET rowids == ChunkRowids(d, document_id)
           r1 == IF rowids # {} THEN DeleteEmbeddingsStmt(conn, d, rowids) ELSE Ok(d, None)
           r2 == DeleteDocumentStmt(r1.db, document_id)
       IN  IF r1.status # "ok" THEN Fail(d, r1.status)
           ELSE IF r2.status # "ok"
                  THEN Fail(IF conn.autocommit THEN r1.db ELSE d, r2.status)
           ELSE Ok(r2.db, [success |-> TRUE])

\* ------------------------------------------------- session configuration
\* "if v" / "not v" of an Optional[int]
Truthy(v) == v # Absent /\ v # 0

\* return v or info.data.get("openai_api_key")
set_rag_api_key(v, data) ==
  IF v # None /\ v # "" THEN v ELSE data.openai_api_key

\* int(chunk_size * 0.2): the double nearest to 0.2 is a little above 1/5 and the
\* product is rounded to nearest, so for chunk_size >= 0 the truncation is
\* floor(chunk_size / 5)
TwentyPercent(chunk_size) == (chunk_size * 20) \div 100

\* the validator of chunk_size and chunk_overlap; data holds the fields above it
set_chunking_defaults(v, data, field_name) ==
  IF v # Absent THEN v
  ELSE LET dims == data.embedding_dimensions IN
       IF ~Truthy(dims) THEN Absent
       ELSE IF field_name = "chunk_size"
         THEN IF dims >= 1024 THEN 1000
              ELSE IF dims >= 768 THEN 768
              ELSE IF dims >= 512 THEN 512
              ELSE 384
       ELSE IF Truthy(data.chunk_size) THEN TwentyPercent(data.chunk_size)
       ELSE Absent

\* SessionConfig(**config): the fields in their order of declaration; a field
\* validator runs on a value that was given, a default is taken as it is
\* (pydantic 2, no validate_default); openai_api_key has no default
SessionConfig(config) ==
  LET data1 == [embedding_dimensions |-> config.embedding_dimensions.value,
                openai_api_key |-> config.openai_api_key.value]
      rag_api_key == IF config.rag_api_key.given
                       THEN set_rag_api_key(config.rag_api_key.value, data1) ELSE None
      chunk_size == IF config.chunk_size.given
                      THEN set_chunking_defaults(config.chunk_size.value, data1, "chunk_size")
                      ELSE Absent
      data2 == [embedding_dimensions |-> data1.embedding_dimensions, chunk_size |-> chunk_size]
      chunk_overlap == IF config.chunk_overlap.given
                         THEN set_chunking_defaults(config.chunk_overlap.value, data2, "chunk_overlap")
                         ELSE Absent
  IN  IF ~config.openai_api_key.given
        THEN [status |-> "ValidationError", result |-> None]
        ELSE [status |-> "ok",
              result |-> [embedding_dimensions |-> data1.embedding_dimensions,
                          openai_api_key |-> data1.openai_api_key,
                          rag_api_key |-> rag_api_key,
                          chunk_size |-> chunk_size,
                          chunk_overlap |-> chunk_overlap]]

\* config_model = SessionConfig(**config); return config_model.model_dump()
validate_session_config(config) == SessionConfig(config)

\* ------------------------------------------------------------ the state machine
\* last.arg and last.result are records, one shape a call
NoResult == [none |-> TRUE]

\* no call of the writer in flight
Idle ==
  [pc |-> "idle", op |-> "none", chunks |-> <<>>, document_id |-> None, i |-> 0,
   rowids |-> {}, conn |-> get_db_connection([canEnableExt |-> TRUE, extLoadOK |-> FALSE,
                                               vecCreateOK |-> FALSE, writable |-> TRUE]),
   view |-> EmptyDb, start |-> EmptyDb, embedding |-> [chunk_id |-> None, embedding |-> <<>>]]

Init ==
  /\ env \in { b \in Builds : b.writable }
  /\ db = EmptyDb
  /\ initRuns = [dims \in SchemaDims |-> 0]
  /\ last = [op |-> "none", arg |-> NoResult, status |-> "ok", result |-> NoResult,
             unclosed |-> 0]
  /\ before = EmptyDb
  /\ wr = Idle
  /\ seen = NoResult
  /\ sessions = EmptyFn
  /\ created = EmptyFn
  /\ now = 0
  /\ cleanup_task = [state |-> None, live |-> 0]

Returned(r, value) == IF r.status = "ok" THEN value ELSE NoResult

Done(op, arg, r, result) ==
  /\ db' = r.db
  /\ last' = [op |-> op, arg |-> arg, status |-> r.status, result |-> result,
              unclosed |-> Unclosed(get_db_connection(env), op)]
  /\ before' = db
  /\ UNCHANGED <<now, cleanup_task, sessions, created, env, wr, seen>>

\* Database.__init__: get_db_connection, then initialize_database
DatabaseInit(dims) ==
  /\ LET conn == get_db_connection(env)
         r == IF conn.error # None THEN Fail(db, conn.error)
              ELSE initialize_database(env, db, dims) IN
       /\ Done("initialize_database", [dimensions |-> dims], r, NoResult)
       /\ initRuns' = IF r.status = "ok"
                         THEN [initRuns EXCEPT ![dims] = Min(@ + 1, 2)] ELSE initRuns

TestDbConnection(dimsIn) ==
  /\ LET r == test_db_connection(env, db, dimsIn) IN
       /\ Done("test_db_connection", [embedding_dimensions |-> dimsIn], r,
               Returned(r, [dimensions |-> r.result]))
       /\ UNCHANGED initRuns

InsertDocument(doc) ==
  /\ SchemaExists
  /\ LET r == insert_document(get_db_connection(env), db, doc) IN
       Done("insert_document", doc, r, Returned(r, r.result))
  /\ UNCHANGED initRuns

\* rowids grow without bound as chunks are deleted and inserted again
RowidsBounded(d) == \A c \in DOMAIN d.chunks : d.chunks[c].rowid <= MaxRowid

InsertChunks(chunks) ==
  /\ SchemaExists
  /\ LET r == insert_chunks(get_db_connection(env), db, chunks) IN
       /\ RowidsBounded(r.db)
       /\ Done("insert_chunks", [chunks |-> chunks], r, Returned(r, r.result))
  /\ UNCHANGED initRuns

InsertEmbedding(embedding) ==
  /\ SchemaExists
  /\ LET r == insert_embedding(get_db_connection(env), db, embedding) IN
       Done("insert_embedding", embedding, r, Returned(r, r.result))
  /\ UNCHANGED initRuns

Search(q, limit, override_threshold) ==
  /\ SchemaExists
  /\ \E r \in search_similar_embeddings(get_db_connection(env), db, q, limit, override_threshold) :
       Done("search", [query |-> q, limit |-> limit, override_threshold |-> override_threshold],
            r, Returned(r, [list |-> r.result]))
  /\ UNCHANGED initRuns

GetDocuments ==
  /\ SchemaExists
  /\ \E r \in get_documents(get_db_connection(env), db) :
       Done("get_documents", NoResult, r, Returned(r, [documents |-> r.result]))
  /\ UNCHANGED initRuns

FindDocumentByHash(file_hash) ==
  /\ SchemaExists
  /\ \E r \in find_document_by_hash(get_db_connection(env), db, file_hash) :
       Done("find_document_by_hash", [file_hash |-> file_hash], r,
            Returned(r, r.result))
  /\ UNCHANGED initRuns

DeleteDocument(document_id) ==
  /\ SchemaExists
  /\ LET r == delete_document(get_db_connection(env), db, document_id) IN
       Done("delete_document", [document_id |-> document_id], r, Returned(r, r.result))
  /\ UNCHANGED initRuns

\* the store of one session: set up at session creation, then used
Next ==
  \/ TestDbConnection(TableWidth)
  \/ \E doc \in DocInputs : InsertDocument(doc)
  \/ \E chunks \in Batches : InsertChunks(chunks)
  \/ \E embedding \in EmbeddingInputs : InsertEmbedding(embedding)
  \/ \E q \in QueryInputs, limit \in LimitInputs, t \in ThresholdInputs : Search(q, limit, t)
  \/ GetDocuments
  \/ \E h \in Hashes : FindDocumentByHash(h)
  \/ \E document_id \in DocIds : DeleteDocument(document_id)

Spec == Init /\ [][Next]_vars

\* schema set-up, run any number of times with either width, on a store that
\* holds a document, a chunk and an embedding or not
SchemaDoc == [id |-> "d1", name |-> "a.pdf", type |-> "pdf", size |-> 10, file_hash |-> "h1"]
SchemaChunk == [id |-> "c1", document_id |-> "d1", content |-> "text"]
SchemaEmbedding == [chunk_id |-> "c1", embedding |-> <<5, 0>>]

NextSchema ==
  \/ \E dims \in SchemaDims : DatabaseInit(dims)
  \/ \E dimsIn \in DimsInputs : TestDbConnection(dimsIn)
  \/ InsertDocument(SchemaDoc)
  \/ InsertChunks(<<SchemaChunk>>)
  \/ InsertEmbedding(SchemaEmbedding)
  \/ DeleteDocument("d1")

SpecSchema == Init /\ [][NextSchema]_vars

\* the file system grants or withdraws write permission on the storage location
Chmod(w) ==
  /\ env.writable # w
  /\ env' = [env EXCEPT !.writable = w]
  /\ last' = [op |-> "chmod", arg |-> [writable |-> w], status |-> "ok", result |-> NoResult,
              unclosed |-> 0]
  /\ before' = db
  /\ UNCHANGED <<db, initRuns, wr, seen, sessions, created, now, cleanup_task>>

\* set-up and every operation, on a location that is writable or not
NextAccess ==
  \/ \E w \in BOOLEAN : Chmod(w)
  \/ DatabaseInit(TableWidth)
  \/ \E dimsIn \in DimsInputs : TestDbConnection(dimsIn)
  \/ InsertDocument(SchemaDoc)
  \/ InsertChunks(<<SchemaChunk>>)
  \/ InsertEmbedding(SchemaEmbedding)
  \/ \E limit \in LimitInputs : Search(SchemaEmbedding.embedding, limit, Absent)
  \/ GetDocuments
  \/ FindDocumentByHash(SchemaDoc.file_hash)
  \/ DeleteDocument(SchemaDoc.id)

SpecAccess == Init /\ [][NextAccess]_vars

\* a second passes on the clock CURRENT_TIMESTAMP reads
ClockTick ==
  /\ db.clock < MaxClock
  /\ db' = [db EXCEPT !.clock = @ + 1]
  /\ last' = [op |-> "tick", arg |-> NoResult, status |-> "ok", result |-> NoResult,
              unclosed |-> 0]
  /\ before' = db
  /\ UNCHANGED <<env, initRuns, wr, seen, sessions, created, now, cleanup_task>>

\* searches over one document's chunks, with vectors near the query, far
\* from it and in between
SearchVecs == { <<5, 0>>, <<3, 4>>, <<0, 5>> }
SearchQueries == { <<5, 0>>, <<0, 5>> }

NextSearch ==
  \/ TestDbConnection(TableWidth)
  \/ InsertDocument(SchemaDoc)
  \/ \E chunks \in { b \in Batches : \A i \in DOMAIN b : b[i].document_id = SchemaDoc.id } :
       InsertChunks(chunks)
  \/ \E chunk_id \in ChunkIds, v \in SearchVecs :
       InsertEmbedding([chunk_id |-> chunk_id, embedding |-> v])
  \/ \E q \in SearchQueries, limit \in LimitInputs, t \in ThresholdInputs : Search(q, limit, t)
  \/ DeleteDocument(SchemaDoc.id)

SpecSearch == Init /\ [][NextSearch]_vars

\* documents inserted, listed and deleted while time passes
NextDocs ==
  \/ TestDbConnection(TableWidth)
  \/ \E doc \in DocInputs : InsertDocument(doc)
  \/ GetDocuments
  \/ \E document_id \in DocIds : DeleteDocument(document_id)
  \/ ClockTick

SpecDocs == Init /\ [][NextDocs]_vars

\* ------------------------------------------------------------------ sessions
\* a call of the session layer: the store is not touched
Reply(op, arg, status, result) ==
  /\ last' = [op |-> op, arg |-> arg, status |-> status, result |-> result, unclosed |-> 0]
  /\ before' = db
  /\ UNCHANGED <<env, db, initRuns, wr, seen>>

ValidateSessionConfig(config) ==
  /\ LET r == validate_session_config(config) IN
       Reply("validate_session_config", config, r.status, Returned(r, r.result))
  /\ UNCHANGED <<sessions, created, now, cleanup_task>>

NextConfig == \E config \in ConfigInputs : ValidateSessionConfig(config)

\* the session layer does not depend on the build: one build is enough
InitSession == Init /\ env.canEnableExt /\ env.extLoadOK /\ env.vecCreateOK

SpecConfig == InitSession /\ [][NextConfig]_vars

\* SessionManager: m is self.sessions, t is datetime.now(); "created_at" is
\* written once and read by list_sessions only, it is left out
create_session(m, session_id, config, t) ==
  Put(m, session_id, [config |-> config, last_accessed |-> t])

\* faulty variant: the session is returned without its last_accessed being set
get_session_NoTouch(m, session_id, t) == m

\* the sessions after get_session(session_id); it returns None if the id is unknown
get_session(m, session_id, t) ==
  IF session_id \in DOMAIN m THEN [m EXCEPT ![session_id].last_accessed = t] ELSE m

update_session(m, session_id, config, t) ==
  IF session_id \in DOMAIN m
    THEN [m EXCEPT ![session_id].config = config, ![session_id].last_accessed = t]
    ELSE m

delete_session(m, session_id) == Drop(m, {session_id})

list_sessions(m) == [sid \in DOMAIN m |-> [last_accessed |-> m[sid].last_accessed]]

\* faulty variant: the task is started by the first create_session only
StartCleanup_OnlyFirst(task) ==
  IF task.state = None THEN [state |-> "pending", live |-> task.live + 1] ELSE task

\* if self.cleanup_task is None or self.cleanup_task.done(): create_task(...)
StartCleanup(task) ==
  IF task.state = None \/ task.state = "done"
    THEN [state |-> "pending", live |-> task.live + 1]
    ELSE task

\* (current_time - session["last_accessed"]) > timedelta(minutes=timeout)
ExpiredSessions(m, t) ==
  { sid \in DOMAIN m : t - m[sid].last_accessed > session_timeout_minutes }

\* POST /session/create: model_dump() has the fields of SessionConfig only, so
\* "db_path" is never in validated_config and the store is not probed;
\* session_id is a uuid4, an id no session had before
CreateSession(session_id, config) ==
  /\ session_id \notin DOMAIN created
  /\ LET r == validate_session_config(config) IN
       IF r.status = "ok"
         THEN /\ sessions' = create_session(sessions, session_id, r.result, now)
              /\ cleanup_task' = StartCleanup(cleanup_task)
              /\ created' = Put(created, session_id, r.result)
              /\ Reply("create_session", config, "ok",
                       [session_id |-> session_id, vector_search |-> TRUE])
         ELSE /\ Reply("create_session", config, "HTTP 400", NoResult)
              /\ UNCHANGED <<sessions, created, cleanup_task>>
  /\ UNCHANGED now

\* GET /session/config/{session_id}: get_config calls get_session
GetSessionConfig(session_id) ==
  /\ sessions' = get_session(sessions, session_id, now)
  /\ IF session_id \in DOMAIN sessions
       THEN Reply("get_config", [session_id |-> session_id], "ok",
                  [config |-> sessions[session_id].config])
       ELSE Reply("get_config", [session_id |-> session_id], "HTTP 404", NoResult)
  /\ UNCHANGED <<created, now, cleanup_task>>

\* GET /session/list
ListSessions ==
  /\ Reply("list_sessions", NoResult, "ok", [sessions |-> list_sessions(sessions)])
  /\ UNCHANGED <<sessions, created, now, cleanup_task>>

\* POST /session/update/{session_id}: get_session, validate_session_config,
\* then self.sessions[session_id]["config"] = config
UpdateSession(session_id, config) ==
  /\ LET r == validate_session_config(config)
         touched == get_session(sessions, session_id, now) IN
       IF session_id \notin DOMAIN sessions
         THEN /\ Reply("update_session", [session_id |-> session_id], "HTTP 404", NoResult)
              /\ UNCHANGED sessions
       ELSE IF r.status # "ok"
         THEN /\ Reply("update_session", [session_id |-> session_id], "HTTP 400", NoResult)
              /\ sessions' = touched
       ELSE /\ sessions' = update_session(touched, session_id, r.result, now)
            /\ Reply("update_session", [session_id |-> session_id], "ok", [success |-> TRUE])
  /\ UNCHANGED <<created, now, cleanup_task>>

\* DELETE /session/expire/{session_id}: get_session, then delete_session
ExpireSession(session_id) ==
  /\ IF session_id \in DOMAIN sessions
       THEN /\ sessions' = delete_session(get_session(sessions, session_id, now), session_id)
            /\ Reply("expire_session", [session_id |-> session_id], "ok", [success |-> TRUE])
       ELSE /\ Reply("expire_session", [session_id |-> session_id], "HTTP 404", NoResult)
            /\ UNCHANGED sessions
  /\ UNCHANGED <<created, now, cleanup_task>>

\* one pass of _cleanup_expired_sessions after its sleep: the expired sessions
\* are removed, and the task ends if no session remains
CleanupExpiredSessions ==
  /\ cleanup_task.state = "pending"
  /\ LET expired_sessions == ExpiredSessions(sessions, now)
         remaining == Drop(sessions, expired_sessions) IN
       /\ sessions' = remaining
       /\ cleanup_task' = IF DOMAIN remaining = {}
                            THEN [state |-> "done", live |-> cleanup_task.live - 1]
                            ELSE cleanup_task
       /\ Reply("cleanup", NoResult, "ok", [expired_sessions |-> expired_sessions])
  /\ UNCHANGED <<created, now>>

\* a minute passes
SessionTick ==
  /\ now < MaxNow
  /\ now' = now + 1
  /\ Reply("minute", NoResult, "ok", NoResult)
  /\ UNCHANGED <<sessions, created, cleanup_task>>

SessionConfigs ==
  { config \in ConfigInputs :
      /\ config.embedding_dimensions \in {Given(768), Given(1536)}
      /\ config.chunk_size \in {NotGiven(Absent), Given(Absent), Given(7)}
      /\ config.chunk_overlap = Given(Absent)
      /\ config.rag_api_key = NotGiven(None) }

\* requests in any order within one minute
NextSession ==
  \/ \E session_id \in SessionIds, config \in SessionConfigs : CreateSession(session_id, config)
  \/ \E session_id \in SessionIds : GetSessionConfig(session_id)
  \/ ListSessions
  \/ \E session_id \in SessionIds, config \in SessionConfigs : UpdateSession(session_id, config)
  \/ \E session_id \in SessionIds : ExpireSession(session_id)
  \/ CleanupExpiredSessions

SpecSession == InitSession /\ [][NextSession]_vars

\* sessions of one configuration while the minutes pass
ExpiryConfig ==
  [embedding_dimensions |-> Given(768), openai_api_key |-> Given("sk-chat"),
   rag_api_key |-> NotGiven(None), chunk_size |-> Given(Absent), chunk_overlap |-> Given(Absent)]

NextExpiry ==
  \/ \E session_id \in SessionIds : CreateSession(session_id, ExpiryConfig)
  \/ \E session_id \in SessionIds : GetSessionConfig(session_id)
  \/ ListSessions
  \/ \E session_id \in SessionIds : UpdateSession(session_id, ExpiryConfig)
  \/ \E session_id \in SessionIds : ExpireSession(session_id)
  \/ CleanupExpiredSessions
  \/ SessionTick

SpecExpiry == InitSession /\ [][NextExpiry]_vars

\* ------------------------------------------------ authentication middleware
\* The two application modules, each with its own authenticate_request
Mains == {"docuchat_api", "app"}

\* request.url.path, as one of the strings the lists below name and what follows it
Path(prefix, rest) == [prefix |-> prefix, rest |-> rest]

\* PUBLIC_PATHS of each module
PUBLIC_PATHS(main) ==
  IF main = "docuchat_api"
    THEN {"/", "/health", "/api/session/create", "/api/session/list",
          "/api/session/update/", "/api/session/expire/", "/api/session/config/",
          "/docs", "/redoc", "/openapi.json"}
    ELSE {"/", "/health", "/api/session/create", "/api/session/list",
          "/api/session/update/", "/api/session/expire/",
          "/docs", "/redoc", "/openapi.json"}

\* the prefixes of the second any(...) of each module
PublicPrefixes(main) ==
  IF main = "docuchat_api"
    THEN {"/api/session/update/", "/api/session/expire/", "/api/session/config/"}
    ELSE {"/api/session/update/", "/api/session/expire/"}

\* any(path == public_path ...) or any(path.startswith(prefix) ...)
SkipAuthentication(main, path) ==
  \/ path.rest = "" /\ path.prefix \in PUBLIC_PATHS(main)
  \/ path.prefix \in PublicPrefixes(main)

\* session_id is request.headers.get("X-Session-ID"): None without the header
authenticate_request(main, path, session_id, m, t) ==
  IF SkipAuthentication(main, path) THEN [status |-> "forwarded", sessions |-> m]
  ELSE IF session_id = None \/ session_id = "" THEN [status |-> "HTTP 401", sessions |-> m]
  ELSE IF session_id \notin DOMAIN m THEN [status |-> "HTTP 401", sessions |-> m]
  ELSE [status |-> "forwarded", sessions |-> get_session(m, session_id, t)]

\* one request through the middleware; what call_next does with a forwarded
\* request is the endpoint's own action
AuthenticateRequest(main, path, session_id) ==
  /\ LET r == authenticate_request(main, path, session_id, sessions, now) IN
       /\ sessions' = r.sessions
       /\ Reply("authenticate_request",
                [main |-> main, path |-> path, session_id |-> session_id],
                r.status, NoResult)
  /\ UNCHANGED <<created, now, cleanup_task>>

RequestPaths ==
  { Path("/", ""), Path("/health", ""), Path("/docs", ""), Path("/docs", "/x"),
    Path("/api/session/create", ""), Path("/api/session/list", ""),
    Path("/api/session/update/", "s1"), Path("/api/session/expire/", "s1"),
    Path("/api/session/config/", "s1"),
    Path("/api/documents", ""), Path("/api/chat", "") }

\* no header, an empty one, the ids of the sessions and an id no session has
RequestHeaders == {None, "", "s0"} \cup SessionIds

NextAuth ==
  \/ \E session_id \in SessionIds : CreateSession(session_id, ExpiryConfig)
  \/ \E session_id \in SessionIds : ExpireSession(session_id)
  \/ CleanupExpiredSessions
  \/ SessionTick
  \/ \E main \in Mains, path \in RequestPaths, session_id \in RequestHeaders :
       AuthenticateRequest(main, path, session_id)

SpecAuth == InitSession /\ [][NextAuth]_vars

\* ------------------------------------------------ statement-level runs
\* One writer runs insert_chunks or delete_document a statement at a time while
\* readers on connections of their own read the committed content (WAL mode: a
\* reader sees the last commit, never the writer's open transaction).  wr.view
\* is the store as the writer's connection sees it, db what is committed.

\* what a statement of the writer leaves committed
Committed(conn, d, view) == IF conn.autocommit THEN view ELSE d

Finish(op, arg, status, result) ==
  /\ last' = [op |-> op, arg |-> arg, status |-> status, result |-> result,
              unclosed |-> Unclosed(wr.conn, op)]
  /\ before' = wr.start
  /\ wr' = Idle
  /\ seen' = NoResult

BeginInsertChunks(chunks) ==
  /\ SchemaExists /\ wr.pc = "idle"
  /\ wr' = [Idle EXCEPT !.pc = "insert", !.op = "insert_chunks", !.chunks = chunks,
                        !.i = 1, !.conn = get_db_connection(env), !.view = db, !.start = db]
  /\ seen' = NoResult
  /\ UNCHANGED <<now, cleanup_task, sessions, created, env, db, initRuns, last, before>>

\* one INSERT of the loop; a failure leaves the loop, the except branch closes
\* the connection and with it any open transaction
StepInsertChunk ==
  /\ wr.pc = "insert" /\ wr.i <= Len(wr.chunks)
  /\ LET r == InsertChunkStmt(wr.view, wr.chunks[wr.i]) IN
       IF r.status = "ok"
         THEN /\ RowidsBounded(r.db)
              /\ db' = Committed(wr.conn, db, r.db)
              /\ wr' = [wr EXCEPT !.view = r.db, !.i = @ + 1]
              /\ UNCHANGED <<last, before, seen>>
         ELSE /\ db' = db
              /\ Finish("insert_chunks", [chunks |-> wr.chunks], r.status, NoResult)
  /\ UNCHANGED <<now, cleanup_task, sessions, created, env, initRuns>>

\* the end of "with connection:", the commit of the open transaction if any
CommitInsertChunks ==
  /\ wr.pc = "insert" /\ wr.i > Len(wr.chunks)
  /\ db' = wr.view
  /\ Finish("insert_chunks", [chunks |-> wr.chunks], "ok",
            [success |-> TRUE, count |-> Len(wr.chunks)])
  /\ UNCHANGED <<now, cleanup_task, sessions, created, env, initRuns>>

BeginDeleteDocument(document_id) ==
  /\ SchemaExists /\ wr.pc = "idle"
  /\ wr' = [Idle EXCEPT !.pc = "select", !.op = "delete_document",
                        !.document_id = document_id, !.conn = get_db_connection(env),
                        !.view = db, !.start = db]
  /\ seen' = NoResult
  /\ UNCHANGED <<now, cleanup_task, sessions, created, env, db, initRuns, last, before>>

\* SELECT rowid FROM chunks WHERE document_id = ?
DeleteSelectRowids ==
  /\ wr.pc = "select"
  /\ wr' = [wr EXCEPT !.pc = "embeddings", !.rowids = ChunkRowids(db, wr.document_id),
                      !.view = db]
  /\ UNCHANGED <<now, cleanup_task, sessions, created, env, db, initRuns, last, before, seen>>

\* if rowids: DELETE FROM vss_embeddings WHERE rowid IN (...)
DeleteEmbeddings ==
  /\ wr.pc = "embeddings"
  /\ LET r == IF wr.rowids # {} THEN DeleteEmbeddingsStmt(wr.conn, wr.view, wr.rowids)
              ELSE Ok(wr.view, None) IN
       IF r.status = "ok"
         THEN /\ db' = Committed(wr.conn, db, r.db)
              /\ wr' = [wr EXCEPT !.pc = "document", !.view = r.db]
              /\ UNCHANGED <<last, before, seen>>
         ELSE /\ db' = db
              /\ Finish("delete_document", [document_id |-> wr.document_id], r.status, NoResult)
  /\ UNCHANGED <<now, cleanup_task, sessions, created, env, initRuns>>

\* DELETE FROM documents WHERE id = ? and the end of "with connection:"
DeleteDocumentRow ==
  /\ wr.pc = "document"
  /\ LET r == DeleteDocumentStmt(wr.view, wr.document_id) IN
       IF r.status = "ok"
         THEN /\ db' = r.db
              /\ Finish("delete_document", [document_id |-> wr.document_id], "ok",
                        [success |-> TRUE])
         ELSE /\ db' = db
              /\ Finish("delete_document", [document_id |-> wr.document_id], r.status, NoResult)
  /\ UNCHANGED <<now, cleanup_task, sessions, created, env, initRuns>>

\* insert_embedding a statement at a time
BeginInsertEmbedding(embedding) ==
  /\ SchemaExists /\ wr.pc = "idle"
  /\ wr' = [Idle EXCEPT !.pc = "lookup", !.op = "insert_embedding", !.embedding = embedding,
                        !.conn = get_db_connection(env), !.view = db, !.start = db]
  /\ seen' = NoResult
  /\ UNCHANGED <<now, cleanup_task, sessions, created, env, db, initRuns, last, before>>

\* SELECT rowid FROM chunks WHERE id = ?; "if not chunk: raise ValueError"
EmbeddingSelectRowid ==
  /\ wr.pc = "lookup"
  /\ IF wr.embedding.chunk_id \notin DOMAIN db.chunks
       THEN Finish("insert_embedding", wr.embedding, "ValueError", NoResult)
       ELSE /\ wr' = [wr EXCEPT !.pc = "vector",
                                !.rowids = {db.chunks[wr.embedding.chunk_id].rowid}]
            /\ UNCHANGED <<last, before, seen>>
  /\ UNCHANGED <<now, cleanup_task, sessions, created, env, db, initRuns>>

\* INSERT INTO vss_embeddings (rowid, embedding) VALUES (?, ?) with the rowid
\* read before, then connection.commit()
EmbeddingInsertRow ==
  /\ wr.pc = "vector"
  /\ \E chunk_rowid \in wr.rowids :
       LET r == InsertEmbeddingStmt(wr.conn, db, chunk_rowid, tobytes(wr.embedding.embedding)) IN
         /\ db' = r.db
         /\ Finish("insert_embedding", wr.embedding, r.status,
                   IF r.status = "ok" THEN [success |-> TRUE] ELSE NoResult)
  /\ UNCHANGED <<now, cleanup_task, sessions, created, env, initRuns>>

\* delete_document of another caller, between the two statements of insert_embedding
DeleteDocumentMeanwhile(document_id) ==
  /\ wr.pc = "vector"
  /\ DeleteDocument(document_id)

\* a reader on its own connection while the writer's call is in flight:
\* get_documents, and the rows of chunks and vss_embeddings a search joins
ReadSnapshot ==
  /\ wr.pc # "idle"
  /\ \E r \in get_documents(get_db_connection(env), db) :
       seen' = [documents |-> { r.result[i].id : i \in DOMAIN r.result },
                chunks |-> DOMAIN db.chunks,
                embeddings |-> DOMAIN db.embeddings]
  /\ UNCHANGED <<now, cleanup_task, sessions, created, env, db, initRuns, last, before, wr>>

\* the calls of one statement, made while no multi-statement call is in flight
Quiet(A) == wr.pc = "idle" /\ A

\* one row an id and one vector are enough here
ConcDocs == { doc \in DocInputs : doc.file_hash = "h1" }
ConcEmbeddings == { e \in EmbeddingInputs : e.embedding = <<5, 0>> }

NextConc ==
  \/ Quiet(TestDbConnection(TableWidth))
  \/ \E doc \in ConcDocs : Quiet(InsertDocument(doc))
  \/ \E embedding \in ConcEmbeddings : Quiet(InsertEmbedding(embedding))
  \/ \E chunks \in Batches : BeginInsertChunks(chunks)
  \/ StepInsertChunk
  \/ CommitInsertChunks
  \/ \E document_id \in DocIds : BeginDeleteDocument(document_id)
  \/ DeleteSelectRowids
  \/ DeleteEmbeddings
  \/ DeleteDocumentRow
  \/ \E embedding \in ConcEmbeddings : BeginInsertEmbedding(embedding)
  \/ EmbeddingSelectRowid
  \/ EmbeddingInsertRow
  \/ \E document_id \in DocIds : DeleteDocumentMeanwhile(document_id)
  \/ ReadSnapshot

SpecConc == Init /\ [][NextConc]_vars

\* ---------------------------------------------------------------- claims
Conn == get_db_connection(env)

BatchIds(chunks) == { chunks[i].id : i \in DOMAIN chunks }

\* C1: insert_chunks is all-or-nothing: when a member of the batch fails the call
\* raises and the chunks relation is what it was before the call, also when the
\* failing member is not the first; when none fails every member is present.
C1_InsertChunksAllOrNothing ==
  last.op = "insert_chunks" =>
    IF last.status # "ok"
      THEN db.chunks = before.chunks
      ELSE \A i \in DOMAIN last.arg.chunks :
             /\ last.arg.chunks[i].id \in DOMAIN db.chunks
             /\ db.chunks[last.arg.chunks[i].id].document_id = last.arg.chunks[i].document_id

\* C2: after delete_document(D) has returned success for a document D that was
\* in the store, no chunk has document_id D, no embedding is keyed by the rowid
\* of a chunk D had, and no search returns a row whose document_id is D.
C2_CascadeComplete ==
  (last.op = "delete_document" /\ last.status = "ok") =>
    /\ last.arg.document_id \notin DOMAIN db.documents
    /\ \A c \in DOMAIN db.chunks : db.chunks[c].document_id # last.arg.document_id
    /\ ChunkRowids(before, last.arg.document_id) \cap DOMAIN db.embeddings = {}
    /\ \A q \in QueryInputs, limit \in LimitInputs, t \in ThresholdInputs :
         \A r \in search_similar_embeddings(Conn, db, q, limit, t) :
           r.status = "ok" =>
             \A i \in DOMAIN r.result : r.result[i].document_id # last.arg.document_id

C2_Witness ==
  /\ last.op = "delete_document" /\ last.status = "ok"
  /\ last.arg.document_id \in DOMAIN before.documents
  /\ Cardinality(ChunkRowids(before, last.arg.document_id)) >= 2
  /\ ChunkRowids(before, last.arg.document_id) \subseteq DOMAIN before.embeddings

\* the similarities of the stored embeddings to a query, by rowid
SimOf(d, q) ==
  [r \in DOMAIN d.embeddings |-> vec_cosine_similarity(frombuffer(d.embeddings[r]), q)]

\* the sets of the n most similar rowids
TopSets(sim, n) ==
  { T \in SUBSET DOMAIN sim : /\ Cardinality(T) = Min(n, Cardinality(DOMAIN sim))
                              /\ \A x \in T : \A o \in DOMAIN sim \ T : sim[x] >= sim[o] }

Positive(n) == IF n < 0 THEN 0 ELSE n

\* C4: search keeps the top `limit` embeddings by similarity and only then drops
\* those below the threshold: the result is exactly the members of a top-limit
\* set that reach the threshold, and it never has more than `limit` entries.
C4_SearchTopLimitThenThreshold ==
  (last.op = "search" /\ last.status = "ok") =>
    LET sim == SimOf(before, last.arg.query)
        got == { before.chunks[last.result.list[i].chunk_id].rowid :
                   i \in DOMAIN last.result.list }
    IN  /\ Len(last.result.list) <= Positive(last.arg.limit)
        /\ \E T \in TopSets(sim, Positive(last.arg.limit)) :
             got = { x \in T : sim[x] >= Threshold(last.arg.override_threshold) }

\* the same for the limits that are not negative
SearchTopLimitThenThresholdNonNegative ==
  last.op = "search" /\ last.arg.limit >= 0 => C4_SearchTopLimitThenThreshold

\* C5: insert_embedding with a chunk_id that names no chunk fails with the
\* not-found error whatever the vector is, and changes nothing.
C5_InsertEmbeddingMissingChunk ==
  (last.op = "insert_embedding" /\ last.arg.chunk_id \notin DOMAIN before.chunks) =>
    /\ last.status = "ValueError"
    /\ db = before

C5_Witness ==
  /\ last.op = "insert_embedding"
  /\ last.arg.chunk_id \notin DOMAIN before.chunks
  /\ Len(last.arg.embedding) # TableWidth
  /\ DOMAIN before.chunks # {}
  /\ VecUsable(Conn, before)

\* C6: delete_document on an id that names no document returns success and
\* changes nothing; a second delete_document of the same id gives the state and
\* the result of the first.
C6_DeleteMissingDocumentNoop ==
  /\ (last.op = "delete_document" /\ last.arg.document_id \notin DOMAIN before.documents) =>
       /\ last.status = "ok"
       /\ last.result = [success |-> TRUE]
       /\ db = before
  /\ SchemaExists =>
       \A document_id \in DocIds :
         LET r1 == delete_document(Conn, db, document_id)
             r2 == delete_document(Conn, r1.db, document_id)
         IN  r1.status = "ok" => (r2.status = "ok" /\ r2.db = r1.db /\ r2.result = r1.result)

C6_Witness ==
  /\ last.op = "delete_document"
  /\ last.arg.document_id \notin DOMAIN before.documents
  /\ DOMAIN before.documents # {}
  /\ DOMAIN before.chunks # {}

\* a store with the baseline tables and no usable vector table
Degraded(d) ==
  /\ Baseline \subseteq d.tables
  /\ VecTable \notin d.tables \/ ~env.extLoadOK

\* C9: in a degraded store every document/chunk operation succeeds with its
\* normal effect: insert_document, insert_chunks, get_documents,
\* find_document_by_hash, and delete_document of a document that has chunks.
C9_DegradedStoreFullyFunctional ==
  Degraded(before) =>
    /\ (last.op = "insert_document" /\ last.arg.id \notin DOMAIN before.documents) =>
         (last.status = "ok" /\ last.arg.id \in DOMAIN db.documents)
    /\ (last.op = "insert_chunks" /\ RunBatch(before, last.arg.chunks, 1).status = "ok") =>
         (last.status = "ok" /\ BatchIds(last.arg.chunks) \subseteq DOMAIN db.chunks)
    /\ last.op \in {"get_documents", "find_document_by_hash"} => last.status = "ok"
    /\ (last.op = "delete_document" /\ last.arg.document_id \in DOMAIN before.documents) =>
         /\ last.status = "ok"
         /\ last.arg.document_id \notin DOMAIN db.documents
         /\ \A c \in DOMAIN db.chunks : db.chunks[c].document_id # last.arg.document_id

\* C10: insert_document with an id that exists fails with the conflict error
\* and changes nothing; with a fresh id it adds exactly one document carrying the
\* given id, name, type, size and file_hash.
C10_InsertDocumentConflict ==
  last.op = "insert_document" =>
    IF last.arg.id \in DOMAIN before.documents
      THEN /\ last.status = "IntegrityError"
           /\ db = before
      ELSE /\ last.status = "ok"
           /\ last.result = [id |-> last.arg.id]
           /\ DOMAIN db.documents = DOMAIN before.documents \cup {last.arg.id}
           /\ db.documents[last.arg.id] =
                [name |-> last.arg.name, type |-> last.arg.type,
                 size |-> last.arg.size, file_hash |-> last.arg.file_hash]
           /\ \A i \in DOMAIN before.documents : db.documents[i] = before.documents[i]
           /\ db.chunks = before.chunks /\ db.embeddings = before.embeddings
           /\ db.tables = before.tables

C10_Witness ==
  /\ last.op = "insert_document"
  /\ last.arg.id \in DOMAIN before.documents
  /\ DocRow(last.arg) # before.documents[last.arg.id]
  /\ DOMAIN before.chunks # {}

\* C7: schema set-up is idempotent: initialize_database run again on a store it
\* has set up with the same dimensions raises nothing, leaves the same tables and
\* leaves every document, chunk and embedding row as it was.
C7_SchemaSetupIdempotent ==
  (last.op = "initialize_database" /\ initRuns[last.arg.dimensions] >= 2) =>
    /\ last.status = "ok"
    /\ db.tables = before.tables
    /\ db.vecDims = before.vecDims
    /\ db.documents = before.documents
    /\ db.chunks = before.chunks
    /\ db.embeddings = before.embeddings

C7_Witness ==
  /\ last.op = "initialize_database"
  /\ initRuns[last.arg.dimensions] >= 2
  /\ DOMAIN before.documents # {}
  /\ DOMAIN before.chunks # {}
  /\ DOMAIN before.embeddings # {}

\* C8: schema set-up fails open: when the extension does not load (neither
\* directly nor the alternate way) or the vector table cannot be created,
\* initialize_database returns normally and documents and chunks exist afterwards.
C8_SchemaSetupFailsOpen ==
  (last.op = "initialize_database" /\ (~env.extLoadOK \/ ~env.vecCreateOK)) =>
    /\ last.status = "ok"
    /\ Baseline \subseteq db.tables
    /\ VecTable \notin db.tables

C8_Witness ==
  /\ last.op = "initialize_database"
  /\ env.extLoadOK /\ ~env.vecCreateOK
  /\ before.tables = {}
  /\ last.status = "ok"

\* the chunks a document had when the writer's call began, and their rowids
ChunksAtStart(document_id) ==
  { c \in DOMAIN wr.start.chunks : wr.start.chunks[c].document_id = document_id }

\* C3: a reader that runs while insert_chunks or delete_document is in flight
\* never sees an intermediate state: of a batch it sees none or all of the new
\* chunks; of a deletion it sees the document with all its chunks and embeddings
\* or none of them.
C3_NoPartialVisibility ==
  seen # NoResult =>
    /\ wr.op = "insert_chunks" =>
         LET B == BatchIds(wr.chunks) \ DOMAIN wr.start.chunks IN
           (seen.chunks \cap B = {}) \/ (B \subseteq seen.chunks)
    /\ wr.op = "delete_document" =>
         LET D == wr.document_id
             C == ChunksAtStart(D)
             E == ChunkRowids(wr.start, D) \cap DOMAIN wr.start.embeddings
         IN  D \in DOMAIN wr.start.documents =>
               \/ D \in seen.documents /\ C \subseteq seen.chunks /\ E \subseteq seen.embeddings
               \/ D \notin seen.documents /\ C \cap seen.chunks = {} /\ E \cap seen.embeddings = {}

\* the part of C3 that is about deletion
DeletionNeverPartlyVisible ==
  (seen # NoResult /\ wr.op = "insert_chunks") \/ C3_NoPartialVisibility

\* C11: in every reachable state, whatever the interleaving of insert_chunks,
\* insert_embedding and delete_document, every embedding row is keyed by the
\* rowid of a chunk that exists.
C11_EmbeddingsReferToChunks ==
  \A r \in DOMAIN db.embeddings : \E c \in DOMAIN db.chunks : db.chunks[c].rowid = r

\* C12: every chunk's document_id names an existing document, and insert_chunks
\* with a member whose document_id names no document is rejected.
C12_ChunksReferToDocuments ==
  /\ \A c \in DOMAIN db.chunks : db.chunks[c].document_id \in DOMAIN db.documents
  /\ (last.op = "insert_chunks" /\ \E i \in DOMAIN last.arg.chunks :
         last.arg.chunks[i].document_id \notin DOMAIN before.documents) =>
       /\ last.status = "IntegrityError"
       /\ db.documents = before.documents

C12_Witness ==
  /\ last.op = "insert_chunks" /\ last.status = "IntegrityError"
  /\ Len(last.arg.chunks) = 2
  /\ last.arg.chunks[1].document_id \in DOMAIN before.documents
  /\ last.arg.chunks[1].id \notin DOMAIN before.chunks
  /\ last.arg.chunks[2].document_id \notin DOMAIN before.documents
  /\ last.arg.chunks[2].id \notin DOMAIN before.chunks \cup {last.arg.chunks[1].id}

\* a number that was not supplied: the key is missing or null
NumberNotSupplied(f) == ~f.given \/ f.value = Absent

\* the chunk size the breakpoints give for a dimensionality
ChunkSizeFor(d) ==
  IF d >= 1024 THEN 1000 ELSE IF d >= 768 THEN 768 ELSE IF d >= 512 THEN 512 ELSE 384

\* C13: with chunk_size not supplied and embedding_dimensions d supplied the
\* resolved chunk_size is 1000 for d >= 1024, 768 for 768 <= d < 1024, 512 for
\* 512 <= d < 768 and 384 otherwise; a supplied chunk_size is kept; with d not
\* supplied chunk_size stays unset.
C13_ChunkSizeFromDimensions ==
  (last.op = "validate_session_config" /\ last.status = "ok") =>
    LET d == last.arg.embedding_dimensions
        cs == last.arg.chunk_size
    IN  /\ ~NumberNotSupplied(cs) => last.result.chunk_size = cs.value
        /\ (NumberNotSupplied(cs) /\ ~NumberNotSupplied(d)) =>
             last.result.chunk_size = ChunkSizeFor(d.value)
        /\ (NumberNotSupplied(cs) /\ NumberNotSupplied(d)) => last.result.chunk_size = Absent

\* C14: with chunk_overlap not supplied and chunk_size known (supplied or
\* derived) the resolved chunk_overlap is floor(chunk_size * 20 / 100), also
\* when embedding_dimensions was not supplied; a supplied chunk_overlap is kept.
C14_ChunkOverlapTwentyPercent ==
  (last.op = "validate_session_config" /\ last.status = "ok") =>
    LET co == last.arg.chunk_overlap IN
      /\ ~NumberNotSupplied(co) => last.result.chunk_overlap = co.value
      /\ (NumberNotSupplied(co) /\ last.result.chunk_size # Absent) =>
           last.result.chunk_overlap = (last.result.chunk_size * 20) \div 100

\* C15: with rag_api_key not supplied the resolved rag_api_key is the supplied
\* openai_api_key; a supplied rag_api_key is kept.
C15_RagKeyDefaultsToOpenAiKey ==
  (last.op = "validate_session_config" /\ last.status = "ok") =>
    LET rk == last.arg.rag_api_key IN
      /\ (rk.given /\ rk.value # None) => last.result.rag_api_key = rk.value
      /\ (~rk.given \/ rk.value = None) =>
           last.result.rag_api_key = last.arg.openai_api_key.value

\* what does hold: a key given as null, with a dimensionality that is not 0, is
\* resolved as C13, C14 and C15 say
NullKeysResolved ==
  (last.op = "validate_session_config" /\ last.status = "ok") =>
    LET d == last.arg.embedding_dimensions
        cs == last.arg.chunk_size
        co == last.arg.chunk_overlap
        rk == last.arg.rag_api_key
    IN  /\ (cs = Given(Absent) /\ Truthy(d.value)) =>
             last.result.chunk_size = ChunkSizeFor(d.value)
        /\ (co = Given(Absent) /\ Truthy(d.value) /\ Truthy(last.result.chunk_size)) =>
             last.result.chunk_overlap = (last.result.chunk_size * 20) \div 100
        /\ rk = Given(None) => last.result.rag_api_key = last.arg.openai_api_key.value

\* C16: search returns the empty list, and raises nothing, when no embedding is
\* stored, and for every limit <= 0 whatever is stored (on a store whose vector
\* table the connection can use).
C16_SearchEmptyCases ==
  (/\ last.op = "search"
   /\ VecUsable(Conn, before)
   /\ Len(last.arg.query) = before.vecDims
   /\ DOMAIN before.embeddings = {} \/ last.arg.limit <= 0) =>
    /\ last.status = "ok"
    /\ last.result = [list |-> <<>>]

\* the same for the limits that are not negative
SearchEmptyCasesNonNegative ==
  (last.op = "search" /\ last.arg.limit >= 0) => C16_SearchEmptyCases

\* C17: insert_embedding for an existing chunk with a vector whose length is
\* not the vector table's width fails with the operation's own
\* dimension-mismatch error and stores no embedding row.
C17_DimensionMismatchRaisedByOperation ==
  (/\ last.op = "insert_embedding"
   /\ last.arg.chunk_id \in DOMAIN before.chunks
   /\ VecUsable(Conn, before)
   /\ Len(last.arg.embedding) # before.vecDims) =>
    /\ last.status = "DimensionMismatchError"
    /\ db = before

\* the part of C17 that holds: the call fails and no embedding row is stored
MismatchedVectorNotStored ==
  (/\ last.op = "insert_embedding"
   /\ last.arg.chunk_id \in DOMAIN before.chunks
   /\ VecUsable(Conn, before)
   /\ Len(last.arg.embedding) # before.vecDims) =>
    /\ last.status # "ok"
    /\ db = before

\* C18: a session's configuration is the one resolved at its creation, whatever
\* requests came later (create, get, list, update, expire of other sessions).
C18_SessionConfigImmutable ==
  \A session_id \in DOMAIN sessions : sessions[session_id].config = created[session_id]

StoreOperations ==
  {"insert_document", "insert_chunks", "insert_embedding", "search", "get_documents",
   "delete_document", "find_document_by_hash"}

\* C19: when the storage location is not writable every store operation fails
\* before it touches the store, and the error is the permission error.
C19_UnwritableFailsWithPermissionError ==
  (last.op \in StoreOperations /\ ~env.writable) =>
    /\ last.status = "PermissionError"
    /\ db = before

\* the part of C19 that holds: the operation fails and the store is untouched
UnwritableFailsUntouched ==
  (last.op \in StoreOperations /\ ~env.writable) =>
    /\ last.status # "ok"
    /\ db = before

\* C20: only failures of the vector extension are absorbed by schema set-up:
\* when the storage location is not writable test_db_connection and
\* initialize_database do not return as if they had succeeded.
C20_OnlyVectorFailuresAbsorbed ==
  (last.op \in {"test_db_connection", "initialize_database"} /\ ~env.writable) =>
    last.status # "ok"

\* what a caller of schema set-up gets back from a call that returned
SetupValue(op, r) == IF op = "test_db_connection" THEN [dimensions |-> r.result] ELSE NoResult

\* the same set-up call on the same store under another build
SetupUnder(e, op, d, arg) ==
  IF op = "test_db_connection" THEN test_db_connection(e, d, arg.embedding_dimensions)
  ELSE initialize_database(e, d, arg.dimensions)

\* C21: schema set-up tells its caller whether vector search is available: two
\* set-up calls that return the same value to the caller agree on whether the
\* vector table exists afterwards.
C21_SetupReportsDegradation ==
  (last.op \in {"initialize_database", "test_db_connection"} /\ last.status = "ok") =>
    \A e \in { b \in Builds : b.writable } :
      LET r == SetupUnder(e, last.op, before, last.arg) IN
        (r.status = "ok" /\ SetupValue(last.op, r) = last.result) =>
          ((VecTable \in r.db.tables) <=> (VecTable \in db.tables))

\* C23: test_db_connection returns the dimensionality the caller gave, or 384
\* when none was given, and after it returns the baseline tables exist.
C23_ProbeReturnsDimensionsAndHeals ==
  last.op = "test_db_connection" =>
    /\ last.status = "ok"
    /\ last.result = [dimensions |-> IF last.arg.embedding_dimensions = Absent
                                       THEN DEFAULT_EMBEDDING_DIMENSIONS
                                       ELSE last.arg.embedding_dimensions]
    /\ Baseline \subseteq db.tables

\* the part of C23 that holds: on a writable location, for a dimensionality
\* that is not 0
ProbeHealsWritable ==
  (last.op = "test_db_connection" /\ env.writable /\ last.arg.embedding_dimensions # 0) =>
    C23_ProbeReturnsDimensionsAndHeals

\* C24: on a store whose vector table was created, insert_embedding, search and
\* delete_document succeed on the fresh connection each of them opens.
C24_ExtensionOnEveryConnection ==
  VecTable \in before.tables =>
    /\ (/\ last.op = "insert_embedding"
        /\ last.arg.chunk_id \in DOMAIN before.chunks
        /\ before.chunks[last.arg.chunk_id].rowid \notin DOMAIN before.embeddings
        /\ Len(last.arg.embedding) = before.vecDims) => last.status = "ok"
    /\ (last.op = "search" /\ Len(last.arg.query) = before.vecDims) => last.status = "ok"
    /\ last.op = "delete_document" => last.status = "ok"

\* the same on the builds whose get_db_connection loads the extension itself
ExtensionLoadedByAlternatePath ==
  (~env.canEnableExt /\ env.extLoadOK) => C24_ExtensionOnEveryConnection

\* C22: get_documents returns every stored document exactly once, and a
\* document inserted after the others comes before them in every list
\* get_documents can return, also when it was inserted in the same second.
C22_GetDocumentsNewestFirst ==
  /\ (last.op = "get_documents" /\ last.status = "ok") =>
       /\ Len(last.result.documents) = Cardinality(DOMAIN before.documents)
       /\ { last.result.documents[i].id : i \in DOMAIN last.result.documents }
            = DOMAIN before.documents
  /\ (last.op = "insert_document" /\ last.status = "ok") =>
       \A g \in get_documents(Conn, db) :
         /\ g.status = "ok"
         /\ g.result[1].id = last.arg.id

\* the same when no other document was created in the second of the insert
NewestFirstAcrossSeconds ==
  (last.op = "insert_document" =>
     \A i \in DOMAIN before.documents : before.created_at[i] < before.clock)
  => C22_GetDocumentsNewestFirst

\* C25: every store operation and test_db_connection has closed every
\* connection it opened when it returns or raises.
C25_ConnectionsReleased ==
  last.op \in StoreOperations \cup {"test_db_connection"} => last.unclosed = 0

\* the same on the builds that have enable_load_extension
ConnectionsReleasedMainPath ==
  env.canEnableExt => C25_ConnectionsReleased

\* C26: the threshold search applies is the override whenever one is given, 0
\* included, and the default similarity threshold only when none is given: the
\* result is the rows of a top-limit set whose similarity reaches that value.
C26_OverrideThresholdApplied ==
  (last.op = "search" /\ last.status = "ok") =>
    LET applied == IF last.arg.override_threshold = Absent
                     THEN similarity_threshold ELSE last.arg.override_threshold
        sim == SimOf(before, last.arg.query)
        n == IF last.arg.limit < 0 THEN Cardinality(DOMAIN sim) ELSE last.arg.limit
        got == { before.chunks[last.result.list[i].chunk_id].rowid :
                   i \in DOMAIN last.result.list }
    IN  \E T \in TopSets(sim, n) : got = { x \in T : sim[x] >= applied }

C26_Witness ==
  /\ last.op = "search" /\ last.status = "ok"
  /\ last.arg.override_threshold = 0
  /\ \E i \in DOMAIN last.result.list : last.result.list[i].similarity < similarity_threshold
  /\ \E i \in DOMAIN last.result.list : last.result.list[i].similarity > similarity_threshold

\* C27: the list search returns is sorted by similarity, highest first.
C27_SearchResultSorted ==
  (last.op = "search" /\ last.status = "ok") =>
    \A i, j \in DOMAIN last.result.list :
      i < j => last.result.list[i].similarity >= last.result.list[j].similarity

C27_Witness ==
  /\ last.op = "search" /\ last.status = "ok"
  /\ Len(last.result.list) = 2
  /\ last.result.list[1].similarity > last.result.list[2].similarity
  /\ before.chunks[last.result.list[1].chunk_id].rowid
       > before.chunks[last.result.list[2].chunk_id].rowid

C29_SessionExpiry ==
  [][/\ last'.op = "cleanup" =>
          /\ \A sid \in DOMAIN sessions \ DOMAIN sessions' :
               now - sessions[sid].last_accessed > session_timeout_minutes
          /\ \A sid \in DOMAIN sessions' :
               /\ now - sessions[sid].last_accessed <= session_timeout_minutes
               /\ sessions'[sid] = sessions[sid]
     /\ (last'.op \in {"get_config", "update_session"} /\ last'.status = "ok") =>
          sessions'[last'.arg.session_id].last_accessed = now
     /\ last'.op = "list_sessions" => sessions' = sessions
     /\ DOMAIN sessions' # DOMAIN sessions =>
          last'.op \in {"cleanup", "create_session", "expire_session"}]_vars

C29_Witness ==
  /\ last.op = "cleanup"
  /\ last.result.expired_sessions # {}
  /\ \E sid \in DOMAIN sessions : sessions[sid].last_accessed > 0

\* C30: whenever there is a session a cleanup task is alive, and there is
\* never more than one.
C30_CleanupTaskPending ==
  /\ DOMAIN sessions # {} => cleanup_task.live >= 1
  /\ cleanup_task.live <= 1

C30_Witness ==
  /\ DOMAIN sessions # {}
  /\ DOMAIN created # DOMAIN sessions
  /\ last.op = "create_session" /\ last.status = "ok"
  /\ cleanup_task.live = 1

\* the paths the claim names as public: root, health, docs, session create and
\* list, and everything under the update, expire and config prefixes
NamedPublic(path) ==
  \/ path.rest = "" /\ path.prefix \in {"/", "/health", "/docs", "/redoc", "/openapi.json",
                                         "/api/session/create", "/api/session/list"}
  \/ path.prefix \in {"/api/session/update/", "/api/session/expire/", "/api/session/config/"}

AuthenticationHolds ==
  LET path == last.arg.path
      session_id == last.arg.session_id IN
    IF NamedPublic(path)
      THEN last.status = "forwarded"
      ELSE /\ last.status \in {"forwarded", "HTTP 401"}
           /\ last.status = "forwarded" <=> session_id \in DOMAIN sessions

\* C31: a request to a non-public path is forwarded exactly when its
\* X-Session-ID names a session that exists, and answered 401 otherwise; a
\* request to a public path is forwarded whatever its header.
C31_AuthenticationMiddleware ==
  last.op = "authenticate_request" => AuthenticationHolds

\* the same for the middleware of docuchat_api/main.py alone
AuthenticationDocuchatApi ==
  (last.op = "authenticate_request" /\ last.arg.main = "docuchat_api") => AuthenticationHolds

AuthenticationDocuchatApi_Witness ==
  /\ last.op = "authenticate_request" /\ last.arg.main = "docuchat_api"
  /\ ~NamedPublic(last.arg.path)
  /\ last.arg.session_id \in DOMAIN created \ DOMAIN sessions
  /\ last.status = "HTTP 401"
====
